---- MODULE Spec2Model ----
(***************************************************************************)
(* LocalizationService of angular2localization: the language-switch life   *)
(* cycle (updateTranslation, getTranslation, the provider fetches and      *)
(* translationComplete), the translation table (addTranslation, addData,   *)
(* extend), key resolution (translate) and the collation of translated     *)
(* values (compare, sort, search).                                         *)
(*                                                                         *)
(* Strings whose characters matter (keys, values, separators) are          *)
(* sequences of one-character strings; language tags are only compared     *)
(* whole and are TLA+ strings.                                             *)
(***************************************************************************)
EXTENDS Integers, Sequences, FiniteSets, TLC

VARIABLES
    languageCode,    \* this.languageCode
    loadingMode,     \* this.loadingMode: "Direct" or "Async"
    serviceState,    \* this.serviceState: "isWaiting", "isLoading", "isReady"
    providers,       \* this.providers, as the number of registered providers
    translationData, \* this.translationData: language -> mapping
    missingValue,    \* this.missingValue
    missingKey,      \* this.missingKey
    composedKey,     \* this.composedKey
    keySeparator,    \* this.keySeparator
    counter,         \* this.counter
    inflight,        \* the http.get subscriptions that have not ended yet
    emitted,         \* the calls of translationChanged.emit: how many, how many
                     \* of them in direct mode, the payload of the latest and
                     \* (history) the load whose fetch made it
    loads,           \* history: the calls of getTranslation: how many, the
                     \* fetches they issued and the language of the latest
    failed,          \* history: number of fetches that ended in error
    lastOp,          \* history: the operation of the last step and its inputs
    result,          \* history: if the last step was a call of translate, its
                     \* arguments and what it returned
    list,            \* the caller's array of records that sort and search
                     \* are called with
    listCall,        \* history: if the last step was a call of sort, search
                     \* or compare, its arguments and what it returned
    component        \* the ListComponent: whether it is constructed, and its
                     \* fields s, keyName and order; its DATA is list

vars == << languageCode, loadingMode, serviceState, providers, translationData,
           missingValue, missingKey, composedKey, keySeparator, counter,
           inflight, emitted, loads, failed, lastOp, result, list, listCall,
           component >>

(***************************************************************************)
(* Bounds of the model.                                                    *)
(***************************************************************************)
MaxProviders == 2
MaxFetches == 4
MaxDirect == 1
MaxCallDepth == 3
MaxPieces == 3
MaxListLen == 3

Langs == {"en", "it"}

(***************************************************************************)
(* Values of a translation mapping: a string, a nested mapping, null, or   *)
(* undefined (what reading an absent property gives).                      *)
(***************************************************************************)
StrV(s) == [t |-> "str", s |-> s, m |-> <<>>]
ObjV(m) == [t |-> "obj", s |-> <<>>, m |-> m]
NullV == [t |-> "null", s |-> <<>>, m |-> <<>>]
Undefined == [t |-> "undefined", s |-> <<>>, m |-> <<>>]
Thrown == [t |-> "throw", s |-> <<>>, m |-> <<>>]

\* obj[key]
Get(obj, key) == IF key \in DOMAIN obj THEN obj[key] ELSE Undefined

\* this.translationData[language]
Entry(data, language) ==
    IF language \in DOMAIN data THEN ObjV(data[language]) ELSE Undefined

(***************************************************************************)
(* The translation table: addData and extend.                              *)
(***************************************************************************)
CopyFields_KeepsFirst(newObj, obj) ==
    [key \in (DOMAIN newObj) \cup (DOMAIN obj) |->
        IF key \in DOMAIN newObj THEN newObj[key] ELSE obj[key]]

\* One round of extend's outer loop: every field of obj is copied to newObj.
CopyFields(newObj, obj) ==
    [key \in (DOMAIN newObj) \cup (DOMAIN obj) |->
        IF key \in DOMAIN obj THEN obj[key] ELSE newObj[key]]

RECURSIVE ExtendFrom(_, _)
ExtendFrom(newObj, args) ==
    IF args = <<>> THEN newObj
    ELSE ExtendFrom(CopyFields(newObj, Head(args)), Tail(args))

\* extend(...args): a new object with the fields of every argument, in order.
extend(args) == ExtendFrom(<<>>, args)

addData_ReplacesTable(table, data, language) == [l \in {language} |-> data]

\* addData(data, language): the table afterwards.
addData(table, data, language) ==
    LET merged == IF language \in DOMAIN table
                  THEN extend(<< table[language], data >>)
                  ELSE data
    IN  [l \in (DOMAIN table) \cup {language} |->
            IF l = language THEN merged ELSE table[l]]

(***************************************************************************)
(* The environment: what the server returns to provider prov for a         *)
(* language. Every file has the key "t"; its value names the provider and  *)
(* the language. Provider prov's file also has a key of its own.           *)
(***************************************************************************)
ProvChar(prov) == IF prov = 1 THEN "1" ELSE IF prov = 2 THEN "2" ELSE "3"
LangChar(language) == IF language = "en" THEN "e" ELSE "i"

ServerFile(prov, language) ==
    (<<"t">> :> StrV(<< ProvChar(prov), LangChar(language) >>)) @@
    (<<"p", ProvChar(prov)>> :> StrV(<< LangChar(language) >>))

\* The payload addTranslation is called with in the life-cycle
\* specification.
DirectPayloads == { (<<"d">> :> StrV(<<"d">>)) }

(***************************************************************************)
(* History records.                                                        *)
(***************************************************************************)
Op(op, language, load, prov) ==
    [op |-> op, lang |-> language, load |-> load, prov |-> prov, data |-> <<>>]

Emissions(count, direct, language, load) ==
    [count |-> count, direct |-> direct, lang |-> language, load |-> load]

\* emitted after translationChanged.emit(language), called for load `load`
\* (0: direct mode).
Emit(before, language, load) ==
    Emissions(before.count + 1,
              IF load = 0 THEN before.direct + 1 ELSE before.direct,
              language, load)

Fetch(load, prov, language) == [load |-> load, prov |-> prov, lang |-> language]

Loads(count, issued, language) ==
    [count |-> count, issued |-> issued, lang |-> language]

Call(key, args, language, value) ==
    [key |-> key, args |-> args, lang |-> language, value |-> value]

NoCall == Call(<<>>, Undefined, "", Undefined)

\* A call of sort (keyNames holds keyName), search or compare (keys holds
\* key1 and key2), whether the collator was supported, and what the call
\* returned: a list, or for compare a number.
ListCall(op, s, keys, keyNames, order, extension, options, supported, returned, number) ==
    [op |-> op, s |-> s, keys |-> keys, keyNames |-> keyNames, order |-> order,
     extension |-> extension, options |-> options, supported |-> supported,
     returned |-> returned, number |-> number]

NoListCall == ListCall("", <<>>, <<>>, <<>>, "", "", "", TRUE, <<>>, 0)

\* The fields of a ListComponent other than DATA.
Component(s, keyName, order) ==
    [made |-> TRUE, s |-> s, keyName |-> keyName, order |-> order]
NoComponent == [made |-> FALSE, s |-> <<>>, keyName |-> "", order |-> ""]

(***************************************************************************)
(* Initial state: the constructor.                                         *)
(***************************************************************************)
Init ==
    /\ languageCode = ""
    /\ loadingMode = "Direct"
    /\ serviceState = "isWaiting"
    /\ providers = 0
    /\ translationData = [l \in {} |-> <<>>]
    /\ missingValue = Undefined
    /\ missingKey = Undefined
    /\ composedKey = TRUE
    /\ keySeparator = StrV(<<".">>)
    /\ counter = 0  \* not assigned by the constructor; never read before
                    \* getTranslation assigns it
    /\ inflight = {}
    /\ emitted = Emissions(0, 0, "", 0)
    /\ loads = Loads(0, 0, "")
    /\ failed = 0
    /\ lastOp = Op("constructor", "", 0, 0)
    /\ result = NoCall
    /\ list = <<>>
    /\ listCall = NoListCall
    /\ component = NoComponent

listVars == << list, listCall, component >>

tableVars == << missingValue, missingKey, composedKey, keySeparator >>

(***************************************************************************)
(* addProvider(prefix, dataFormat, webAPI); translationProvider calls it.  *)
(***************************************************************************)
AddProvider ==
    /\ providers < MaxProviders
    /\ providers' = providers + 1
    /\ loadingMode' = IF providers' = 1 THEN "Async" ELSE loadingMode
    /\ lastOp' = Op("addProvider", "", 0, providers')
    /\ UNCHANGED << languageCode, serviceState, translationData, counter,
                    inflight, emitted, loads, failed >>
    /\ UNCHANGED tableVars
    /\ result' = NoCall
    /\ UNCHANGED listVars

(***************************************************************************)
(* addTranslation(language, translation)                                   *)
(***************************************************************************)
AddTranslation(language, translation) ==
    /\ translationData' = addData(translationData, translation, language)
    /\ lastOp' = [Op("addTranslation", language, 0, 0) EXCEPT !.data = translation]
    /\ UNCHANGED << languageCode, loadingMode, serviceState, providers, counter,
                    inflight, emitted, loads, failed >>
    /\ UNCHANGED tableVars
    /\ result' = NoCall
    /\ UNCHANGED listVars

(***************************************************************************)
(* updateTranslation(language), with getTranslation and                    *)
(* translationComplete.                                                    *)
(***************************************************************************)
LanguageChanges_IgnoresCurrent(language) == language # ""

\* The condition under which updateTranslation does anything.
LanguageChanges(language) == language # "" /\ language # languageCode

translationComplete_KeepsLanguage(language, load) ==
    /\ serviceState' = "isReady"
    /\ languageCode' = languageCode
    /\ emitted' = Emit(emitted, language, load)

translationComplete_EmitsFirst(language, load) ==
    /\ serviceState' = "isReady"
    /\ languageCode' = language
    /\ emitted' = Emit(emitted, languageCode, load)

\* translationComplete(language), called for load `load` (0: direct mode).
translationComplete(language, load) ==
    /\ serviceState' = "isReady"
    /\ languageCode' = language
    /\ emitted' = Emit(emitted, language, load)

\* The subscriptions getTranslation opens: one per provider.
Subscriptions(load, language) ==
    { Fetch(load, prov, language) : prov \in 1..providers }

getTranslation_StaysWaiting(language) ==
    /\ translationData' = [l \in {} |-> <<>>]
    /\ counter' = providers
    /\ inflight' = inflight \cup Subscriptions(loads.count + 1, language)
    /\ loads' = Loads(loads.count + 1, loads.issued + providers, language)
    /\ UNCHANGED << languageCode, serviceState, emitted >>

\* getTranslation(language)
getTranslation(language) ==
    /\ translationData' = [l \in {} |-> <<>>]
    /\ serviceState' = "isLoading"
    /\ counter' = providers
    /\ inflight' = inflight \cup Subscriptions(loads.count + 1, language)
    /\ loads' = Loads(loads.count + 1, loads.issued + providers, language)
    /\ UNCHANGED << languageCode, emitted >>

UpdateTranslation(language) ==
    /\ lastOp' = Op("updateTranslation", language, 0, 0)
    /\ IF LanguageChanges(language)
       THEN IF loadingMode = "Async"
            THEN /\ loads.issued + providers <= MaxFetches
                 /\ getTranslation(language)
            ELSE /\ emitted.direct < MaxDirect
                 /\ translationComplete(language, 0)
                 /\ UNCHANGED << translationData, counter, inflight, loads >>
       ELSE UNCHANGED << languageCode, serviceState, translationData, counter,
                         inflight, emitted, loads >>
    /\ UNCHANGED << loadingMode, providers, failed >>
    /\ UNCHANGED tableVars
    /\ result' = NoCall
    /\ UNCHANGED listVars

(***************************************************************************)
(* The end of one fetch. A response is delivered to the next callback and  *)
(* then to the complete callback, in one turn of the event loop; an error  *)
(* is delivered to the error callback, and an observable that has          *)
(* errored delivers no completion.                                         *)
(***************************************************************************)
LastRequest_Zero(n) == n = 0
LastRequest_Negative(n) == n < 0

\* The complete callback: whether this was the last request.
LastRequest(n) == n <= 0

FetchSucceeds_UnderNewestTag(f) ==
    /\ f \in inflight
    /\ inflight' = inflight \ {f}
    /\ translationData' = addData(translationData, ServerFile(f.prov, f.lang), loads.lang)
    /\ counter' = counter - 1
    /\ IF LastRequest(counter')
       THEN translationComplete(f.lang, f.load)
       ELSE UNCHANGED << languageCode, serviceState, emitted >>
    /\ lastOp' = Op("fetchSucceeds", f.lang, f.load, f.prov)
    /\ UNCHANGED << loadingMode, providers, loads, failed >>
    /\ UNCHANGED tableVars
    /\ result' = NoCall
    /\ UNCHANGED listVars

FetchSucceeds(f) ==
    /\ f \in inflight
    /\ inflight' = inflight \ {f}
    /\ translationData' = addData(translationData, ServerFile(f.prov, f.lang), f.lang)
    /\ counter' = counter - 1
    /\ IF LastRequest(counter')
       THEN translationComplete(f.lang, f.load)
       ELSE UNCHANGED << languageCode, serviceState, emitted >>
    /\ lastOp' = Op("fetchSucceeds", f.lang, f.load, f.prov)
    /\ UNCHANGED << loadingMode, providers, loads, failed >>
    /\ UNCHANGED tableVars
    /\ result' = NoCall
    /\ UNCHANGED listVars

FetchFails(f) ==
    /\ f \in inflight
    /\ inflight' = inflight \ {f}
    /\ failed' = failed + 1
    /\ lastOp' = Op("fetchFails", f.lang, f.load, f.prov)
    /\ UNCHANGED << languageCode, loadingMode, serviceState, providers,
                    translationData, counter, emitted, loads >>
    /\ UNCHANGED tableVars
    /\ result' = NoCall
    /\ UNCHANGED listVars

(***************************************************************************)
(* translate(key, args, lang)                                              *)
(***************************************************************************)
\* The index of the first occurrence of sep in s at or after i; 0 if none.
RECURSIVE IndexOf(_, _, _)
IndexOf(s, sep, i) ==
    IF i + Len(sep) - 1 > Len(s) THEN 0
    ELSE IF SubSeq(s, i, i + Len(sep) - 1) = sep THEN i
    ELSE IndexOf(s, sep, i + 1)

split_Whole(s, separator) == << s >>

\* key.split(separator), for a non-empty separator or undefined.
RECURSIVE split(_, _)
split(s, separator) ==
    IF separator.t # "str" THEN << s >>
    ELSE LET i == IndexOf(s, separator.s, 1)
         IN  IF i = 0 THEN << s >>
             ELSE << SubSeq(s, 1, i - 1) >>
                    \o split(SubSeq(s, i + Len(separator.s), Len(s)), separator)

\* typeof translation[key] == "object" with translation[key] != null
IsObject(value) == value.t = "obj"

RECURSIVE Descend_Strict(_, _)
Descend_Strict(translation, keys) ==
    LET key == Head(keys)
        next == IF IsObject(Get(translation, key))
                THEN Get(translation, key).m
                ELSE << >>
    IN  IF Len(keys) > 1
        THEN Descend_Strict(next, Tail(keys))
        ELSE [translation |-> next, key |-> key]

\* The do-while loop over the segments: the mapping and the key it ends with.
RECURSIVE Descend(_, _)
Descend(translation, keys) ==
    LET key == Head(keys)
        next == IF IsObject(Get(translation, key))
                THEN Get(translation, key).m
                ELSE translation
    IN  IF Len(keys) > 1
        THEN Descend(next, Tail(keys))
        ELSE [translation |-> next, key |-> key]

\* The first half of translate: the value found and the key it was looked
\* up with, which is what `key` holds afterwards.
Lookup(key, lang) ==
    IF lang \in DOMAIN translationData
    THEN LET end == IF composedKey
                    THEN Descend(translationData[lang], split(key, keySeparator))
                    ELSE [translation |-> translationData[lang], key |-> key]
         IN  [value |-> Get(end.translation, end.key), key |-> end.key]
    ELSE [value |-> Undefined, key |-> key]

IsMissing_Inverted(value) ==
    \/ value.t \in {"undefined", "null"}
    \/ value.t = "str" /\ value.s # <<>>

\* value == null || value == ""
IsMissing(value) ==
    \/ value.t \in {"undefined", "null"}
    \/ value.t = "str" /\ value.s = <<>>

\* if (this.missingKey), if (this.missingValue): a non-empty string.
IsSet(value) == value.t = "str" /\ value.s # <<>>

\* The template expression /{{\s?([^{}\s]*)\s?}}/g.
IsSpace(c) == c = " "
IsNameChar(c) == c \notin {"{", "}", " "}
CharAt(s, i) == IF i \in 1..Len(s) THEN s[i] ELSE ""

\* The end of the run of name characters that starts at i.
RECURSIVE NameEnd(_, _)
NameEnd(s, i) ==
    IF i <= Len(s) /\ IsNameChar(s[i]) THEN NameEnd(s, i + 1) ELSE i

MatchAt_NeverFound(s, i) == [found |-> FALSE, last |-> i, parsedKey |-> <<>>]

\* The match of the expression at position i of s, if there is one.
MatchAt(s, i) ==
    LET from == IF IsSpace(CharAt(s, i + 2)) THEN i + 3 ELSE i + 2
        to == NameEnd(s, from)
        close == IF IsSpace(CharAt(s, to)) THEN to + 1 ELSE to
    IN  [ found |-> /\ CharAt(s, i) = "{" /\ CharAt(s, i + 1) = "{"
                    /\ CharAt(s, close) = "}" /\ CharAt(s, close + 1) = "}",
          last |-> close + 1,
          parsedKey |-> SubSeq(s, from, to - 1) ]

\* value.replace(TEMPLATE_REGEXP, ...), from position i on.
RECURSIVE ReplaceFrom(_, _, _)
ReplaceFrom(s, i, args) ==
    IF i > Len(s) THEN <<>>
    ELSE LET match == MatchAt(s, i)
         IN  IF match.found
             THEN LET response == Get(args, match.parsedKey)
                  IN  (IF response.t # "undefined"
                       THEN response.s
                       ELSE SubSeq(s, i, match.last))
                        \o ReplaceFrom(s, match.last + 1, args)
             ELSE << s[i] >> \o ReplaceFrom(s, i + 1, args)

\* translate, called at depth `depth` of the call stack. The stack is
\* finite: a call that would exceed it throws.
RECURSIVE translateAt(_, _, _, _)
translateAt(key, args, lang, depth) ==
    LET found == Lookup(key, lang)
        value == found.value
    IN  IF IsMissing(value)
        THEN IF IsSet(missingKey)
             THEN IF depth >= MaxCallDepth
                  THEN Thrown
                  ELSE translateAt(missingKey.s, args, lang, depth + 1)
             ELSE IF IsSet(missingValue)
             THEN missingValue
             ELSE StrV(found.key)
        ELSE IF args.t = "obj"
        THEN IF value.t = "str"
             THEN StrV(ReplaceFrom(value.s, 1, args.m))
             ELSE Thrown  \* value.replace is not a function
        ELSE value

translate(key, args, lang) == translateAt(key, args, lang, 0)

(***************************************************************************)
(* The life cycle of the service.                                          *)
(***************************************************************************)
Next ==
    \/ AddProvider
    \/ \E language \in Langs, translation \in DirectPayloads :
          AddTranslation(language, translation)
    \/ \E language \in Langs \cup {""} : UpdateTranslation(language)
    \/ \E f \in inflight : FetchSucceeds(f)
    \/ \E f \in inflight : FetchFails(f)

Spec == Init /\ [][Next]_vars

(***************************************************************************)
(* setMissingValue, setMissingKey, setComposedKey and a call of translate. *)
(***************************************************************************)
lifeVars == << languageCode, loadingMode, serviceState, providers, counter,
               inflight, emitted, loads, failed >>

SetMissingValue(value) ==
    /\ missingValue' = value
    /\ lastOp' = Op("setMissingValue", "", 0, 0)
    /\ result' = NoCall
    /\ UNCHANGED listVars
    /\ UNCHANGED << missingKey, composedKey, keySeparator, translationData >>
    /\ UNCHANGED lifeVars

SetMissingKey(key) ==
    /\ missingKey' = key
    /\ lastOp' = Op("setMissingKey", "", 0, 0)
    /\ result' = NoCall
    /\ UNCHANGED listVars
    /\ UNCHANGED << missingValue, composedKey, keySeparator, translationData >>
    /\ UNCHANGED lifeVars

\* An omitted composedKey is undefined, which the test in translate takes
\* as false; an omitted keySeparator is stored as undefined.
SetComposedKey(composed, separator) ==
    /\ composedKey' = composed
    /\ keySeparator' = separator
    /\ lastOp' = Op("setComposedKey", "", 0, 0)
    /\ result' = NoCall
    /\ UNCHANGED listVars
    /\ UNCHANGED << missingValue, missingKey, translationData >>
    /\ UNCHANGED lifeVars

Translate(key, args, lang) ==
    /\ result' = Call(key, args, lang, translate(key, args, lang))
    /\ lastOp' = Op("translate", lang, 0, 0)
    /\ UNCHANGED listVars
    /\ UNCHANGED << missingValue, missingKey, composedKey, keySeparator,
                    translationData >>
    /\ UNCHANGED lifeVars

(***************************************************************************)
(* The collator of the platform, Intl.Collator(locale, options), over the  *)
(* letters the lists use. Letters differ first by their place in the       *)
(* alphabet; at equal letters, and unless the sensitivity is "base", the   *)
(* first difference of case decides, lower case first, or upper case       *)
(* first when the locale carries the extension "u-kf-upper".               *)
(***************************************************************************)
Alphabet == << "a", "b", "w", "x", "y", "z" >>
LowerOf(c) == IF c = "A" THEN "a" ELSE IF c = "B" THEN "b" ELSE c
IsUpper(c) == LowerOf(c) # c
Weight(c) == CHOOSE i \in DOMAIN Alphabet : Alphabet[i] = LowerOf(c)

RECURSIVE CompareLetters(_, _)
CompareLetters(x, y) ==
    IF x = <<>> THEN (IF y = <<>> THEN 0 ELSE -1)
    ELSE IF y = <<>> THEN 1
    ELSE IF Weight(Head(x)) < Weight(Head(y)) THEN -1
    ELSE IF Weight(Head(x)) > Weight(Head(y)) THEN 1
    ELSE CompareLetters(Tail(x), Tail(y))

\* For strings of equal letters.
RECURSIVE CompareCase(_, _, _)
CompareCase(x, y, upperFirst) ==
    IF x = <<>> THEN 0
    ELSE IF IsUpper(Head(x)) = IsUpper(Head(y))
    THEN CompareCase(Tail(x), Tail(y), upperFirst)
    ELSE IF IsUpper(Head(x)) = upperFirst THEN -1 ELSE 1

\* The options a collator is made with when none are given, and the
\* extension that asks for upper case first.
DefaultOptions == "variant"
UpperFirst == "u-kf-upper"

\* this.locale.getCurrentLanguage(): the language of the locale service,
\* which is the language updateTranslation is called with when the locale
\* changes.
CurrentLanguage == languageCode

\* addExtension(locale, extension); an omitted extension is "".
addExtension(locale, extension) ==
    IF extension # "" THEN locale \o "-" \o extension ELSE locale

HasUpperFirst(locale) ==
    \E language \in Langs \cup {""} : locale = language \o "-" \o UpperFirst

\* new Intl.Collator(locale, options).compare(x, y); options is the
\* sensitivity.
Collate(x, y, locale, options) ==
    LET letters == CompareLetters(x, y)
    IN  IF letters # 0 THEN letters
        ELSE IF options = "base" THEN 0
        ELSE CompareCase(x, y, HasUpperFirst(locale))

(***************************************************************************)
(* compare, sort and search.                                               *)
(***************************************************************************)
\* The languages the platform has a collator for.
CollatorLanguages == {"en"}

\* IntlSupport.Collator(language): whether the platform supports collation
\* for the language.
Collator(language) == language \in CollatorLanguages

\* keyName.concat("Translated")
Translated(keyName) == keyName \o "Translated"

\* item[field] = value
SetField(item, field, value) ==
    [f \in (DOMAIN item) \cup {field} |-> IF f = field THEN value ELSE item[f]]

\* this.translate(undefined): key.split throws when there is an entry to
\* look in; without one the call misses with the key undefined.
translateUndefined ==
    IF languageCode \in DOMAIN translationData /\ composedKey THEN Thrown
    ELSE IF IsSet(missingKey) THEN translate(missingKey.s, Undefined, languageCode)
    ELSE IF IsSet(missingValue) THEN missingValue
    ELSE Undefined

\* this.translate(item[keyName])
translateField(item, keyName) ==
    IF keyName \in DOMAIN item
    THEN translate(item[keyName].s, Undefined, languageCode)
    ELSE translateUndefined

\* The loop over the list that gives every item its column of translated
\* values: item[translated] = this.translate(item[keyName]).
AddColumn(items, keyName) ==
    [i \in DOMAIN items |->
        SetField(items[i], Translated(keyName), translateField(items[i], keyName))]

Insert_Front(sorted, item, column, locale, options) == << item >> \o sorted

RECURSIVE Insert_BeforeEqual(_, _, _, _, _)
Insert_BeforeEqual(sorted, item, column, locale, options) ==
    IF sorted = <<>> THEN << item >>
    ELSE IF Collate(Head(sorted)[column].s, item[column].s, locale, options) < 0
    THEN << Head(sorted) >>
            \o Insert_BeforeEqual(Tail(sorted), item, column, locale, options)
    ELSE << item >> \o sorted

\* Array.prototype.sort with the comparator
\* collator.compare(a[translated], b[translated]): item is put after the
\* items of the sorted part that do not come after it.
RECURSIVE Insert(_, _, _, _, _)
Insert(sorted, item, column, locale, options) ==
    IF sorted = <<>> THEN << item >>
    ELSE IF Collate(Head(sorted)[column].s, item[column].s, locale, options) <= 0
    THEN << Head(sorted) >> \o Insert(Tail(sorted), item, column, locale, options)
    ELSE << item >> \o sorted

RECURSIVE SortBy(_, _, _, _)
SortBy(items, column, locale, options) ==
    IF items = <<>> THEN <<>>
    ELSE Insert(SortBy(SubSeq(items, 1, Len(items) - 1), column, locale, options),
                items[Len(items)], column, locale, options)

Reverse_Same(items) == items

\* list.reverse()
Reverse(items) == [i \in DOMAIN items |-> items[Len(items) + 1 - i]]

\* list.indexOf(translated, 0): the index of the first item identical to
\* the string translated. The items are records, none of them a string.
indexOf(items, translated) == -1

\* "Removes the column of translated values": the splice of the item with
\* that index.
RemoveColumn(items, translated) ==
    LET index == indexOf(items, translated)
    IN  IF index > -1
        THEN SubSeq(items, 1, index) \o SubSeq(items, index + 2, Len(items))
        ELSE items

sort_WithoutSupport(items, keyName, order, extension, options) ==
    LET translated == Translated(keyName)
        sorted == SortBy(AddColumn(items, keyName), translated,
                         addExtension(CurrentLanguage, extension), options)
    IN  IF order = "desc" THEN Reverse(sorted) ELSE sorted

\* sort(list, keyName, order, extension, options): the array afterwards,
\* which is also what the call returns.
sort(items, keyName, order, extension, options) ==
    IF ~Collator(CurrentLanguage) THEN items
    ELSE LET translated == Translated(keyName)
             locale == addExtension(CurrentLanguage, extension)
             sorted == SortBy(AddColumn(items, keyName), translated, locale, options)
             removed == RemoveColumn(sorted, translated)
         IN  IF order = "desc" THEN Reverse(removed) ELSE removed

match_WholeOnly(v, s, locale, options) ==
    Len(s) = Len(v) /\ Collate(v, s, locale, options) = 0

\* match(v, s, collator)
match(v, s, locale, options) ==
    IF Len(s) > Len(v) THEN FALSE
    ELSE IF Len(s) = Len(v) THEN Collate(v, s, locale, options) = 0
    ELSE \E i \in 0..(Len(v) - Len(s)) :
             Collate(SubSeq(v, i + 1, i + Len(s)), s, locale, options) = 0

\* The outer loop of search over keyNames.
RECURSIVE AddColumns(_, _)
AddColumns(items, keyNames) ==
    IF keyNames = <<>> THEN items
    ELSE AddColumns(AddColumn(items, Head(keyNames)), Tail(keyNames))

\* The callback of list.filter.
Found(v, s, keyNames, locale, options) ==
    \E i \in DOMAIN keyNames :
        match(v[Translated(keyNames[i])].s, s, locale, options)

RECURSIVE Filter(_, _, _, _, _)
Filter(items, s, keyNames, locale, options) ==
    IF items = <<>> THEN <<>>
    ELSE (IF Found(Head(items), s, keyNames, locale, options)
          THEN << Head(items) >> ELSE <<>>)
            \o Filter(Tail(items), s, keyNames, locale, options)

RECURSIVE RemoveColumns(_, _)
RemoveColumns(items, keyNames) ==
    IF keyNames = <<>> THEN items
    ELSE RemoveColumns(RemoveColumn(items, Translated(Head(keyNames))),
                       Tail(keyNames))

\* search(s, list, keyNames, options): the caller's array afterwards and
\* the array the call returns.
search(s, items, keyNames, options) ==
    IF s = <<>> \/ ~Collator(CurrentLanguage) THEN [list |-> items, returned |-> items]
    ELSE LET columns == AddColumns(items, keyNames)
             matches == Filter(columns, s, keyNames, CurrentLanguage, options)
         IN  [list |-> columns, returned |-> RemoveColumns(matches, keyNames)]

\* compare(key1, key2, extension, options): the collator is made from the
\* locale alone.
compare(key1, key2, extension, options) ==
    IF ~Collator(CurrentLanguage) THEN 0
    ELSE Collate(translate(key1, Undefined, languageCode).s,
                 translate(key2, Undefined, languageCode).s,
                 addExtension(CurrentLanguage, extension), DefaultOptions)

serviceVars == << languageCode, loadingMode, serviceState, providers,
                  translationData, missingValue, missingKey, composedKey,
                  keySeparator, counter, inflight, emitted, loads, failed >>

\* The caller makes a new array of new records (ListComponent.loadData).
LoadData(input) ==
    /\ list' = input
    /\ listCall' = NoListCall
    /\ lastOp' = Op("loadData", "", 0, 0)
    /\ result' = NoCall
    /\ UNCHANGED component
    /\ UNCHANGED serviceVars

Sort(keyName, order, extension, options) ==
    /\ list' = sort(list, keyName, order, extension, options)
    /\ listCall' = ListCall("sort", <<>>, <<>>, << keyName >>, order, extension,
                            options, Collator(CurrentLanguage), list', 0)
    /\ lastOp' = Op("sort", "", 0, 0)
    /\ result' = NoCall
    /\ UNCHANGED component
    /\ UNCHANGED serviceVars

Search(s, keyNames, options) ==
    LET done == search(s, list, keyNames, options)
    IN  /\ list' = done.list
        /\ listCall' = ListCall("search", s, <<>>, keyNames, "", "", options,
                                Collator(CurrentLanguage), done.returned, 0)
        /\ lastOp' = Op("search", "", 0, 0)
        /\ result' = NoCall
        /\ UNCHANGED component
        /\ UNCHANGED serviceVars

Compare(key1, key2, extension, options) ==
    /\ listCall' = ListCall("compare", <<>>, << key1, key2 >>, <<>>, "", extension,
                            options, Collator(CurrentLanguage), <<>>,
                            compare(key1, key2, extension, options))
    /\ lastOp' = Op("compare", "", 0, 0)
    /\ result' = NoCall
    /\ UNCHANGED << list >>
    /\ UNCHANGED component
    /\ UNCHANGED serviceVars

(***************************************************************************)
(* The inputs of the list specification: one table, two records with the   *)
(* fields p and q that hold keys, and the lists made of records like       *)
(* them.                                                                   *)
(***************************************************************************)
ListPayload ==
    (<<"x">> :> StrV(<<"a">>)) @@ (<<"y">> :> StrV(<<"A">>)) @@
    (<<"z">> :> StrV(<<"b">>)) @@ (<<"w">> :> StrV(<<"a", "b">>))

Record(p, q) == [p |-> StrV(p), q |-> StrV(q)]

Records == { Record(<<"x">>, <<"z">>), Record(<<"y">>, <<"w">>) }

ListInputs == UNION { [1..n -> Records] : n \in 0..MaxListLen }

KeyNames == { "p" }
Orders == { "", "desc" }
Extensions == { "", UpperFirst }
Options == { "variant", "base" }
Queries == { <<>>, <<"A">>, <<"b">>, <<"a", "b", "b">> }
SearchKeyNames == { << "p" >>, << "p", "q" >> }
CompareKeys == { << <<"x">>, <<"y">> >>, << <<"y">>, <<"x">> >>,
                 << <<"x">>, <<"x">> >>, << <<"w">>, <<"z">> >> }

\* The language the locale is switched to.
ListLangs == {"en"}

NextList ==
    \/ AddTranslation("en", ListPayload)
    \/ \E language \in ListLangs : UpdateTranslation(language)
    \/ \E input \in ListInputs : LoadData(input)
    \/ \E keyName \in KeyNames, order \in Orders, extension \in Extensions,
          options \in Options :
          Sort(keyName, order, extension, options)
    \/ \E s \in Queries, keyNames \in SearchKeyNames, options \in Options :
          Search(s, keyNames, options)
    \/ \E keys \in CompareKeys, extension \in Extensions, options \in Options :
          Compare(keys[1], keys[2], extension, options)

SpecList == Init /\ [][NextList]_vars

(***************************************************************************)
(* The ListComponent: its list DATA, the last query s and the parameters   *)
(* keyName and order of the last orderBy.                                  *)
(***************************************************************************)
\* ListComponent.loadData(): a new array of the same records every time.
MockData ==
    << Record(<<"x">>, <<"z">>), Record(<<"z">>, <<"x">>),
       Record(<<"w">>, <<"y">>) >>

\* this.keyNames, and the options search and orderBy pass.
ComponentKeyNames == << "p" >>
SearchOptions == "base"
OrderOptions == "variant"

\* Whether sort throws: the first call of translate in its loop does.
sortThrows(items, keyName) ==
    /\ Collator(CurrentLanguage)
    /\ items # <<>>
    /\ translateField(items[1], keyName) = Thrown

\* The constructor of ListComponent.
NewListComponent ==
    /\ ~component.made
    /\ list' = MockData
    /\ component' = Component(<<>>, "", "")
    /\ listCall' = NoListCall
    /\ lastOp' = Op("newListComponent", "", 0, 0)
    /\ result' = NoCall
    /\ UNCHANGED serviceVars

\* ListComponent.orderBy(keyName, order); an exception of sort leaves DATA
\* and the parameters as they are.
ComponentOrderBy(keyName, order) ==
    /\ component.made
    /\ IF sortThrows(list, keyName)
       THEN UNCHANGED << list, component >>
       ELSE /\ list' = sort(list, keyName, order, "", OrderOptions)
            /\ component' = [component EXCEPT !.keyName = keyName, !.order = order]
    /\ listCall' = ListCall("sort", <<>>, <<>>, << keyName >>, order, "",
                            OrderOptions, Collator(CurrentLanguage), list', 0)
    /\ lastOp' = Op("componentOrderBy", "", 0, 0)
    /\ result' = NoCall
    /\ UNCHANGED serviceVars

\* ListComponent.search(s). With s shorter than the last query it searches
\* the data loaded anew and sorts what it finds; an exception of that sort
\* ends the handler before this.s = s. Otherwise it searches DATA. listCall
\* is the call of search it makes.
ComponentSearch(s) ==
    /\ component.made
    /\ IF Len(s) < Len(component.s)
       THEN LET found == search(s, MockData, ComponentKeyNames, SearchOptions).returned
            IN  /\ listCall' = ListCall("search", s, <<>>, ComponentKeyNames, "", "",
                                        SearchOptions, Collator(CurrentLanguage),
                                        found, 0)
                /\ IF sortThrows(found, component.keyName)
                   THEN /\ list' = found
                        /\ UNCHANGED component
                   ELSE /\ list' = sort(found, component.keyName, component.order,
                                        "", OrderOptions)
                        /\ component' = [component EXCEPT !.s = s]
       ELSE LET found == search(s, list, ComponentKeyNames, SearchOptions).returned
            IN  /\ listCall' = ListCall("search", s, <<>>, ComponentKeyNames, "", "",
                                        SearchOptions, Collator(CurrentLanguage),
                                        found, 0)
                /\ list' = found
                /\ component' = [component EXCEPT !.s = s]
    /\ lastOp' = Op("componentSearch", "", 0, 0)
    /\ result' = NoCall
    /\ UNCHANGED serviceVars

\* ListComponent.reset()
ComponentReset ==
    /\ component.made
    /\ list' = IF sortThrows(MockData, component.keyName)
               THEN MockData
               ELSE sort(MockData, component.keyName, component.order, "",
                         OrderOptions)
    /\ listCall' = ListCall("sort", <<>>, <<>>, << component.keyName >>,
                            component.order, "", OrderOptions,
                            Collator(CurrentLanguage), list', 0)
    /\ lastOp' = Op("componentReset", "", 0, 0)
    /\ result' = NoCall
    /\ UNCHANGED component
    /\ UNCHANGED serviceVars

\* The queries typed and the column headers clicked.
ComponentQueries == { <<>>, <<"A">>, <<"b">>, <<"a", "b">> }
ComponentColumns == { "p", "q" }

NextComponent ==
    \/ AddTranslation("en", ListPayload)
    \/ \E language \in ListLangs : UpdateTranslation(language)
    \/ NewListComponent
    \/ \E keyName \in ComponentColumns, order \in Orders :
          ComponentOrderBy(keyName, order)
    \/ \E s \in ComponentQueries : ComponentSearch(s)
    \/ ComponentReset

SpecComponent == Init /\ [][NextComponent]_vars

(***************************************************************************)
(* The inputs of the table specification.                                  *)
(***************************************************************************)
\* The payloads addTranslation is called with: a direct value and an empty
\* one, a nested mapping and a null, a top-level key that holds the
\* separator, and a chain of three mappings.
TablePayloads ==
    { (<<"a">> :> StrV(<<"x">>)) @@ (<<"b">> :> StrV(<<>>)),
      (<<"a">> :> ObjV(<<"b">> :> StrV(<<"y">>))) @@ (<<"b">> :> NullV),
      (<<"a", ".", "b">> :> StrV(<<"z">>)),
      (<<"b">> :> ObjV(<<"a">> :> ObjV(<<"b">> :> StrV(<<"w">>)))),
      (<<"b">> :> StrV(<<"h", "{", "{", "n", "}", "}">>)) }

\* The language the table specification gives entries to; the other
\* languages stay without an entry.
TableLangs == {"en"}

MissingKeys == { StrV(<<"b">>), StrV(<<"a", ".", "b">>), StrV(<<>>), Undefined }
MissingValues == { StrV(<<"?">>), Undefined }

\* setComposedKey(true, "."), setComposedKey(true, "/"), setComposedKey(true)
\* and setComposedKey(false).
ComposedKeySettings ==
    { << TRUE, StrV(<<".">>) >>, << TRUE, StrV(<<"/">>) >>,
      << TRUE, Undefined >>, << FALSE, Undefined >> }

\* The calls of translate the table specification makes.
CallKeys ==
    { <<"a">>, <<"b">>, <<"a", ".", "b">>, <<"a", "/", "b">>,
      <<"b", ".", "a", ".", "b">>, <<"b", ".", "b">> }
Arguments == { Undefined, ObjV(<<"n">> :> StrV(<<"S">>)) }

NextTable ==
    \/ \E language \in TableLangs, translation \in TablePayloads :
          AddTranslation(language, translation)
    \/ \E value \in MissingValues : SetMissingValue(value)
    \/ \E key \in MissingKeys : SetMissingKey(key)
    \/ \E setting \in ComposedKeySettings :
          SetComposedKey(setting[1], setting[2])
    \/ \E key \in CallKeys, args \in Arguments, lang \in Langs :
          Translate(key, args, lang)

SpecTable == Init /\ [][NextTable]_vars

(***************************************************************************)
(* The inputs of the template specification: values written as a row of    *)
(* pieces, each piece a character of plain text or a placeholder, stored   *)
(* under one key and translated with and without arguments.                *)
(***************************************************************************)
Text(c) == [hole |-> FALSE, source |-> << c >>, name |-> <<>>]
Hole(source, name) == [hole |-> TRUE, source |-> source, name |-> name]

Pieces ==
    { Text("h"), Text("{"),
      Hole(<<"{", "{", "n", "}", "}">>, <<"n">>),
      Hole(<<"{", "{", "m", "}", "}">>, <<"m">>),
      Hole(<<"{", "{", " ", "n", " ", "}", "}">>, <<"n">>) }

Templates == UNION { [1..n -> Pieces] : n \in 1..MaxPieces }

\* The value a template stands for.
RECURSIVE Render(_)
Render(template) ==
    IF template = <<>> THEN <<>>
    ELSE Head(template).source \o Render(Tail(template))

TemplateKey == <<"k">>
TemplatePayload(template) == TemplateKey :> StrV(Render(template))

\* args: {n: "S"}, {n: "{{m}}", m: "T"}, {} and null.
TemplateArgs ==
    { ObjV(<<"n">> :> StrV(<<"S">>)),
      ObjV((<<"n">> :> StrV(<<"{", "{", "m", "}", "}">>)) @@ (<<"m">> :> StrV(<<"T">>))),
      ObjV(<<>>),
      Undefined }

NextTemplate ==
    \/ \E template \in Templates :
          AddTranslation("en", TemplatePayload(template))
    \/ \E args \in TemplateArgs : Translate(TemplateKey, args, "en")

SpecTemplate == Init /\ [][NextTemplate]_vars

(***************************************************************************)
(* Properties of the life cycle.                                           *)
(***************************************************************************)
\* The steps, told by the history of the step's operation.
StartsLoad == lastOp'.op = "updateTranslation" /\ loads'.count = loads.count + 1
FetchEnds == lastOp'.op \in {"fetchSucceeds", "fetchFails"}
Emits == emitted'.count = emitted.count + 1
Quiescent == inflight = {}
AsyncEmissions == emitted.count - emitted.direct

\* C1: with providers registered and every fetch ended with a response, the
\* number of translationChanged emissions of the loads equals the number of
\* loads started.
C1_OneEmissionPerLoad ==
    (Quiescent /\ failed = 0) => AsyncEmissions = loads.count

\* C2: no step emits translationChanged or makes the service ready for a
\* load while a fetch of that load is still outstanding.
C2_NotBeforeAllReported ==
    [][(FetchEnds /\ (Emits \/ (serviceState # "isReady" /\ serviceState' = "isReady")))
         => \A f \in inflight' : f.load # lastOp'.load]_vars

\* C3: a load whose fetches have all ended, some of them in error, has made
\* the service ready in the requested language and has emitted
\* translationChanged.
C3_FailureStillReady ==
    (loads.count = 1 /\ Quiescent /\ failed > 0)
        => /\ serviceState = "isReady"
           /\ languageCode = loads.lang
           /\ AsyncEmissions = 1
           /\ emitted.lang = loads.lang

\* C4: updateTranslation with the empty tag or with the current languageCode
\* changes nothing: languageCode, serviceState, translationData and counter
\* stay, no fetch is issued and nothing is emitted.
C4_NoOpUpdate ==
    [][(lastOp'.op = "updateTranslation"
          /\ (lastOp'.lang = "" \/ lastOp'.lang = languageCode))
         => UNCHANGED << languageCode, serviceState, translationData, counter,
                         inflight, emitted, loads >>]_vars

C4_Witness ==
    /\ lastOp.op = "updateTranslation"
    /\ loadingMode = "Async"
    /\ languageCode # ""
    /\ lastOp.lang = languageCode
    /\ serviceState = "isReady"

\* C5: with no provider registered, updateTranslation with a non-empty tag
\* other than languageCode makes, in that one step, the service ready in
\* that language, emits one notification carrying the tag, and keeps the
\* table as addTranslation built it.
C5_DirectStraightToReady ==
    [][(lastOp'.op = "updateTranslation" /\ providers = 0
          /\ lastOp'.lang # "" /\ lastOp'.lang # languageCode)
         => /\ serviceState' = "isReady"
            /\ languageCode' = lastOp'.lang
            /\ emitted' = Emit(emitted, lastOp'.lang, 0)
            /\ emitted'.count = emitted.count + 1
            /\ emitted'.lang = lastOp'.lang
            /\ translationData' = translationData
            /\ inflight' = {}]_vars

C5_Witness ==
    /\ lastOp.op = "updateTranslation"
    /\ providers = 0
    /\ serviceState = "isReady"
    /\ languageCode = "it"
    /\ emitted = Emissions(1, 1, "it", 0)
    /\ DOMAIN translationData = Langs

\* C6 as stated: starting a load for a language, or ending a fetch of a load
\* for it, leaves the entry of every other language as it was.
C6_OtherEntriesPersist ==
    [][((StartsLoad \/ lastOp'.op = "fetchSucceeds")
         => \A l \in Langs \ {lastOp'.lang} :
                Entry(translationData', l) = Entry(translationData, l))]_vars

\* C6 amended: starting a load empties the whole table; a response of a
\* load for a language then changes the entry of that language only.
C6_LoadClearsResponseKeeps ==
    [][/\ StartsLoad => DOMAIN translationData' = {}
       /\ lastOp'.op = "fetchSucceeds"
            => \A l \in Langs \ {lastOp'.lang} :
                   Entry(translationData', l) = Entry(translationData, l)]_vars

C6_Witness ==
    /\ lastOp.op = "fetchSucceeds"
    /\ lastOp.lang = "it"
    /\ DOMAIN translationData = Langs

(***************************************************************************)
(* Properties of the table and of translate.                               *)
(***************************************************************************)
NonEmptyString(value) == value.t = "str" /\ value.s # <<>>
Contains(s, sep) == IndexOf(s, sep, 1) # 0
DefaultComposedKey == composedKey /\ keySeparator = StrV(<<".">>)

\* C7: addTranslation(L, P2) on an entry built by addTranslation(L, P1)
\* gives the entry the top-level keys of both, every key of P2 with P2's
\* value (a nested mapping replaced whole) and every other key with the
\* value it had; an absent entry is created.
C7_ShallowLastWriterWins ==
    [][lastOp'.op = "addTranslation"
         => LET L == lastOp'.lang
                P2 == lastOp'.data
                P1 == Entry(translationData, L).m
            IN  /\ L \in DOMAIN translationData'
                /\ DOMAIN translationData'[L] = (DOMAIN P1) \cup (DOMAIN P2)
                /\ \A k \in DOMAIN P2 : translationData'[L][k] = P2[k]
                /\ \A k \in (DOMAIN P1) \ (DOMAIN P2) :
                       translationData'[L][k] = P1[k]]_vars

C7_Witness ==
    /\ lastOp.op = "addTranslation"
    /\ lastOp.lang = "en"
    /\ lastOp.data = (<<"b">> :> ObjV(<<"a">> :> ObjV(<<"b">> :> StrV(<<"w">>))))
    /\ "en" \in DOMAIN translationData
    /\ DOMAIN translationData["en"] = { <<"a">>, <<"b">> }
    /\ translationData["en"][<<"a">>] = StrV(<<"x">>)
    /\ translationData["en"][<<"b">>] = lastOp.data[<<"b">>]

\* C8 as stated: under the default composed-key settings, translate of any
\* top-level key whose value is a non-empty string returns that value.
C8_DirectValueAnyKey ==
    DefaultComposedKey
        => \A L \in DOMAIN translationData : \A K \in DOMAIN translationData[L] :
               NonEmptyString(translationData[L][K])
                   => translate(K, Undefined, L) = translationData[L][K]

\* C8 amended: the same for every top-level key that does not contain the
\* separator.
C8_DirectValuePlainKey ==
    DefaultComposedKey
        => \A L \in DOMAIN translationData : \A K \in DOMAIN translationData[L] :
               (NonEmptyString(translationData[L][K])
                  /\ ~Contains(K, keySeparator.s))
                   => translate(K, Undefined, L) = translationData[L][K]

C8_Witness ==
    /\ lastOp.op = "translate"
    /\ DefaultComposedKey
    /\ result = Call(<<"a">>, Undefined, "en", StrV(<<"x">>))
    /\ translationData["en"][<<"a">>] = StrV(<<"x">>)

\* The chains of nested mappings of a mapping that end in a non-empty
\* string: the segments and the string.
RECURSIVE Chains(_)
Chains(mapping) ==
    UNION { IF NonEmptyString(mapping[k])
            THEN { [path |-> << k >>, value |-> mapping[k]] }
            ELSE IF mapping[k].t = "obj"
            THEN { [path |-> << k >> \o c.path, value |-> c.value] :
                     c \in Chains(mapping[k].m) }
            ELSE {} : k \in DOMAIN mapping }

\* The segments joined by the separator.
RECURSIVE Join(_, _)
Join(path, sep) ==
    IF Len(path) = 1 THEN path[1]
    ELSE path[1] \o sep \o Join(Tail(path), sep)

C10_MissPaths ==
    (lastOp.op = "translate" /\ IsMissing(Lookup(result.key, result.lang).value))
        => result.value =
               IF IsSet(missingKey)
               THEN translate(missingKey.s, result.args, result.lang)
               ELSE IF IsSet(missingValue) THEN missingValue
               ELSE StrV(result.key)

\* C11: a call of translate that misses with neither missingKey nor
\* missingValue set returns the key it was called with, whether the key
\* contains the separator or not and whether the language has an entry or
\* not.
C11_ReturnsInputKey ==
    (/\ lastOp.op = "translate"
     /\ ~IsSet(missingKey) /\ ~IsSet(missingValue)
     /\ IsMissing(Lookup(result.key, result.lang).value))
        => result.value = StrV(result.key)

\* C12: every call of translate ends without an exception and returns a
\* string.
C12_AlwaysReturnsString ==
    lastOp.op = "translate" => result.value.t = "str"

\* What the pieces of a template become, one after the other: a
\* placeholder whose name is defined in args becomes args[name], every
\* other piece stays as written.
RECURSIVE Filled(_, _)
Filled(template, args) ==
    IF template = <<>> THEN <<>>
    ELSE LET piece == Head(template)
         IN  (IF piece.hole /\ args.t = "obj" /\ piece.name \in DOMAIN args.m
              THEN args.m[piece.name].s
              ELSE piece.source) \o Filled(Tail(template), args)

\* C13: translate of a key whose value is a row of text and placeholders
\* returns the row with every placeholder whose name is defined in args
\* replaced by args[name] and every other placeholder as written, the
\* inserted text taken as it is; with args null it returns the value.
C13_PlaceholdersFilled ==
    (lastOp.op = "translate" /\ result.key = TemplateKey)
        => \A template \in Templates :
               Get(Entry(translationData, result.lang).m, TemplateKey)
                       = StrV(Render(template))
                   => result.value = StrV(Filled(template, result.args))

C13_Witness ==
    /\ lastOp.op = "translate"
    /\ result.key = TemplateKey
    /\ result.args \in TemplateArgs
    /\ result.args.t = "obj" /\ DOMAIN result.args.m = { <<"n">>, <<"m">> }
    /\ "en" \in DOMAIN translationData
    /\ translationData["en"][TemplateKey]
           = StrV(<<"{", "{", "n", "}", "}", "h", "{", "{", " ", "n", " ", "}", "}">>)
    /\ result.value
           = StrV(<<"{", "{", "m", "}", "}", "h", "{", "{", "m", "}", "}">>)

(***************************************************************************)
(* Properties of sort, search and compare.                                 *)
(***************************************************************************)
SortStep == lastOp'.op = "sort"
SearchStep == lastOp'.op = "search"

\* Whether some record of items has the field.
HasField(items, field) == \E i \in DOMAIN items : field \in DOMAIN items[i]

\* The records without the field.
Without(items, field) ==
    [i \in DOMAIN items |->
        [f \in (DOMAIN items[i]) \ {field} |-> items[i][f]]]

RECURSIVE WithoutAll(_, _)
WithoutAll(items, keyNames) ==
    IF keyNames = <<>> THEN items
    ELSE WithoutAll(Without(items, Translated(Head(keyNames))), Tail(keyNames))

\* The same records, whatever their order.
SameRecords(a, b) ==
    /\ Len(a) = Len(b)
    /\ \A i \in DOMAIN a :
           Cardinality({ j \in DOMAIN a : a[j] = a[i] })
               = Cardinality({ j \in DOMAIN b : b[j] = a[i] })

\* The translated value of the key a record holds in a field.
ValueOf(item, keyName) == translate(item[keyName].s, Undefined, languageCode).s

\* C14: a call of sort or search leaves the field keyName + "Translated"
\* on no record of the list and on no record it returns, when no record of
\* the list had that field before the call.
C14_NoShadowField ==
    [][(SortStep \/ SearchStep)
         => \A i \in DOMAIN listCall'.keyNames :
                LET translated == Translated(listCall'.keyNames[i])
                IN  ~HasField(list, translated)
                        => /\ ~HasField(list', translated)
                           /\ ~HasField(listCall'.returned, translated)]_vars

\* C15: with the collator supported, sort with an order other than "desc"
\* returns the list it was given, holding the same records, each adjacent
\* pair in collation order of the translated values of their keys.
C15_AscendingInPlace ==
    [][(SortStep /\ listCall'.supported /\ listCall'.order # "desc")
         => LET keyName == listCall'.keyNames[1]
                locale == addExtension(CurrentLanguage, listCall'.extension)
            IN  /\ listCall'.returned = list'
                /\ SameRecords(Without(list', Translated(keyName)),
                               Without(list, Translated(keyName)))
                /\ \A i \in 1..(Len(list') - 1) :
                       Collate(ValueOf(list'[i], keyName),
                               ValueOf(list'[i + 1], keyName),
                               locale, listCall'.options) <= 0]_vars

C15_Witness ==
    /\ lastOp.op = "sort"
    /\ listCall.supported /\ listCall.order = ""
    /\ listCall.extension = UpperFirst /\ listCall.options = "variant"
    /\ "en" \in DOMAIN translationData
    /\ Len(list) = 3
    /\ list[1].p = StrV(<<"y">>) /\ list[2].p = StrV(<<"x">>)
    /\ list[3].p = StrV(<<"x">>)

\* Whether b is a read from its end to its start.
IsReverseOf(b, a) ==
    /\ Len(b) = Len(a)
    /\ \A i \in DOMAIN a : b[i] = a[Len(a) + 1 - i]

\* What sort with ascending order returns for the list of this step.
Ascending ==
    sort(list, listCall'.keyNames[1], "", listCall'.extension, listCall'.options)

\* C16 as stated: for every list, sort with order "desc" returns the
\* reverse of what sort with ascending order returns for the same list.
C16_DescendingIsReverse ==
    [][(SortStep /\ listCall'.order = "desc")
         => IsReverseOf(listCall'.returned, Ascending)]_vars

\* C16 amended: the same with the collator supported for the current
\* language.
C16_SupportedDescendingIsReverse ==
    [][(SortStep /\ listCall'.order = "desc" /\ Collator(CurrentLanguage))
         => IsReverseOf(listCall'.returned, Ascending)]_vars

C16_Witness ==
    /\ lastOp.op = "sort"
    /\ listCall.supported /\ listCall.order = "desc"
    /\ listCall.options = "base"
    /\ "en" \in DOMAIN translationData
    /\ Len(list) = 2
    /\ list[1].p = StrV(<<"y">>) /\ list[2].p = StrV(<<"x">>)

\* Whether value has a contiguous substring as long as s that collates
\* equal to s.
HasSubstring(value, s, locale, options) ==
    \E j \in 1..(Len(value) - Len(s) + 1) :
        Collate(SubSeq(value, j, j + Len(s) - 1), s, locale, options) = 0

\* C17: with the collator supported and s not empty, search returns, in
\* the order of the list, exactly the records of which the translated
\* value of some key field has such a substring; it returns none when s is
\* longer than every value.
C17_SearchReturnsMatches ==
    [][(SearchStep /\ listCall'.supported /\ listCall'.s # <<>>)
         => LET call == listCall'
                Matches(item) ==
                    \E i \in DOMAIN call.keyNames :
                        HasSubstring(ValueOf(item, call.keyNames[i]), call.s,
                                     CurrentLanguage, call.options)
            IN  /\ WithoutAll(list', call.keyNames) = WithoutAll(list, call.keyNames)
                /\ call.returned = SelectSeq(list', Matches)
                /\ (\A n \in DOMAIN list : \A i \in DOMAIN call.keyNames :
                        Len(ValueOf(list[n], call.keyNames[i])) < Len(call.s))
                       => call.returned = <<>>]_vars

C17_Witness ==
    /\ lastOp.op = "search"
    /\ listCall.supported
    /\ listCall.s = <<"A">> /\ listCall.keyNames = << "p", "q" >>
    /\ listCall.options = "variant"
    /\ "en" \in DOMAIN translationData
    /\ Len(list) = 3
    /\ Len(listCall.returned) = 1
    /\ listCall.returned[1].p = StrV(<<"y">>)

\* C18: without a collator for the current language, sort returns the
\* list it was given with its records and their order untouched, search
\* returns the list it was given untouched, and compare returns 0.
C18_UnsupportedDegrades ==
    [][(lastOp'.op \in {"sort", "search", "compare"} /\ ~Collator(CurrentLanguage))
         => /\ list' = list
            /\ lastOp'.op \in {"sort", "search"} => listCall'.returned = list
            /\ lastOp'.op = "compare" => listCall'.number = 0]_vars

C18_Witness ==
    /\ lastOp.op = "sort"
    /\ ~listCall.supported /\ listCall.order = "desc"
    /\ "en" \in DOMAIN translationData
    /\ list = << Record(<<"x">>, <<"z">>), Record(<<"y">>, <<"w">>) >>
    /\ listCall.returned = list

Sign(n) == IF n < 0 THEN -1 ELSE IF n > 0 THEN 1 ELSE 0

\* C19: with the collator supported, compare(key1, key2, extension,
\* options) has the sign of the comparison sort makes, for that extension
\* and those options, of two records that hold key1 and key2: sort puts the
\* record of key2 first exactly when compare is positive, and compare is 0
\* exactly when the two values are equal under the options.
C19_CompareAgreesWithSort ==
    (lastOp.op = "compare" /\ listCall.supported)
        => LET key1 == listCall.keys[1]
               key2 == listCall.keys[2]
               locale == addExtension(CurrentLanguage, listCall.extension)
               sorted == sort(<< Record(key1, key1), Record(key2, key2) >>, "p", "",
                              listCall.extension, listCall.options)
               value1 == translate(key1, Undefined, languageCode).s
               value2 == translate(key2, Undefined, languageCode).s
           IN  /\ Sign(listCall.number)
                      = Sign(Collate(value1, value2, locale, listCall.options))
               /\ (listCall.number > 0) <=> (sorted[1].p # StrV(key1))
               /\ (listCall.number = 0)
                      <=> (Collate(value1, value2, locale, listCall.options) = 0)

(***************************************************************************)
(* The states of the service.                                              *)
(***************************************************************************)
\* C20: serviceState starts as isWaiting; with providers registered it
\* changes only from isWaiting to isLoading, from isLoading to isReady and
\* from isReady to isLoading; once a load has been started it is never
\* isWaiting again.
C20_ServiceStates ==
    /\ serviceState = "isWaiting"
    /\ [][((providers > 0 /\ serviceState' # serviceState)
              => << serviceState, serviceState' >>
                     \in { << "isWaiting", "isLoading" >>,
                           << "isLoading", "isReady" >>,
                           << "isReady", "isLoading" >> })
           /\ (loads'.count > 0 => serviceState' # "isWaiting")]_vars

C20_Witness ==
    /\ lastOp.op = "updateTranslation"
    /\ providers > 0
    /\ serviceState = "isLoading"
    /\ loads.count = 2
    /\ AsyncEmissions = 1

(***************************************************************************)
(* Properties of the loads and of their fetches.                           *)
(***************************************************************************)
\* Every load so far was started with the providers registered now.
LoadsOfAllProviders == loads.issued = loads.count * providers

\* C21: languageCode changes only in a step that emits; every step that
\* emits makes the service ready, emits once, and the payload is the
\* languageCode the step leaves; no other step emits.
C21_LanguageWithNotification ==
    [][/\ languageCode' # languageCode => Emits
       /\ emitted' # emitted
            => (Emits /\ serviceState' = "isReady" /\ emitted'.lang = languageCode')]_vars

C21_Witness ==
    /\ lastOp.op = "fetchSucceeds"
    /\ emitted.load = lastOp.load
    /\ emitted.count = 2
    /\ serviceState = "isReady"
    /\ languageCode = "it" /\ emitted.lang = "it"

\* C22: when a load of language L, started with N providers none of which
\* has failed, emits translationChanged, the entry of L has every top-level
\* key of the payload of each of the N providers.
C22_EntryCompleteAtEmission ==
    [][(Emits /\ emitted'.load > 0 /\ failed' = 0 /\ LoadsOfAllProviders)
         => LET L == emitted'.lang
            IN  /\ L \in DOMAIN translationData'
                /\ \A prov \in 1..providers :
                       DOMAIN ServerFile(prov, L) \subseteq DOMAIN translationData'[L]]_vars

\* C23: after the only load, of two or more providers whose responses have
\* all arrived, the key every payload has holds the value of the provider
\* registered last, whatever the order of arrival.
C23_RegistrationOrderWins ==
    (loads.count = 1 /\ Quiescent /\ failed = 0 /\ providers >= 2
       /\ LoadsOfAllProviders)
        => Get(Entry(translationData, loads.lang).m, <<"t">>)
               = ServerFile(providers, loads.lang)[<<"t">>]

\* C24: when every issued fetch has completed with a response, the
\* languageCode after the last completion is the language of the fetch
\* that completed last.
C24_LastCompletionWins ==
    (lastOp.op = "fetchSucceeds" /\ Quiescent /\ failed = 0)
        => languageCode = lastOp.lang

C24_Witness ==
    /\ lastOp.op = "fetchSucceeds"
    /\ Quiescent /\ failed = 0
    /\ loads.count = 2
    /\ lastOp.load = 1
    /\ lastOp.lang # loads.lang
    /\ languageCode = lastOp.lang

\* C25: in async mode, once a load has been started, counter is the number
\* of fetches of the latest load that have not ended, and is not negative.
C25_CounterIsOutstanding ==
    (loadingMode = "Async" /\ loads.count > 0)
        => /\ counter >= 0
           /\ counter = Cardinality({ f \in inflight : f.load = loads.count })

\* The stale responses: of a load that is not the latest, for a language
\* other than the latest load's.
StaleResponse ==
    /\ lastOp'.op = "fetchSucceeds"
    /\ lastOp'.load < loads.count
    /\ lastOp'.lang # loads.lang

\* C26 as stated: a stale response is merged into the entry of the
\* language of the latest load.
C26_StaleUnderNewerTag ==
    [][StaleResponse
         => /\ loads.lang \in DOMAIN translationData'
            /\ Get(translationData'[loads.lang], <<"t">>)
                   = ServerFile(lastOp'.prov, lastOp'.lang)[<<"t">>]]_vars

\* C26 amended: every response is merged into the entry of the language
\* it was fetched for: no entry ever holds a payload fetched for another
\* language, and a stale response leaves the entry of the latest load's
\* language as it was.
C26_ResponseUnderOwnTag ==
    /\ [](\A L \in DOMAIN translationData :
            \A prov \in 1..MaxProviders, other \in Langs \ {L} :
                Get(translationData[L], <<"t">>) # ServerFile(prov, other)[<<"t">>])
    /\ [][StaleResponse
            => /\ Entry(translationData', loads.lang) = Entry(translationData, loads.lang)
               /\ translationData'[lastOp'.lang][<<"t">>]
                      = ServerFile(lastOp'.prov, lastOp'.lang)[<<"t">>]]_vars

C26_Witness ==
    /\ lastOp.op = "fetchSucceeds"
    /\ lastOp.load < loads.count
    /\ lastOp.lang = "en" /\ loads.lang = "it"
    /\ DOMAIN translationData = {"en"}
    /\ inflight # {}

\* C27 as stated: when every issued fetch has completed with a response,
\* languageCode is the language of the latest updateTranslation that
\* started a load.
C27_LatestRequestWins ==
    (loads.count > 0 /\ Quiescent /\ failed = 0) => languageCode = loads.lang

\* C27 amended: the same when the fetch that completed last is one of the
\* latest load.
C27_LatestRequestWinsIfLast ==
    (lastOp.op = "fetchSucceeds" /\ Quiescent /\ failed = 0
       /\ lastOp.load = loads.count)
        => languageCode = loads.lang

C27_Witness ==
    /\ lastOp.op = "fetchSucceeds"
    /\ Quiescent /\ failed = 0
    /\ loads.count = 2
    /\ lastOp.load = 2
    /\ languageCode = loads.lang
    /\ emitted.count - emitted.direct = 3

(***************************************************************************)
(* Properties of composed keys of two segments.                            *)
(***************************************************************************)
\* The segments of the key of the last call of translate.
Segments == split(result.key, keySeparator)

\* The last call was translate("s1.s2", null, L) in composed-key mode, for
\* a language with an entry.
TwoSegmentCall ==
    /\ lastOp.op = "translate"
    /\ composedKey
    /\ result.args.t # "obj"
    /\ result.lang \in DOMAIN translationData
    /\ Len(Segments) = 2

\* What a call returns when it misses with the last segment s2 in hand.
Missed(s2) ==
    IF IsSet(missingKey)
    THEN translateAt(missingKey.s, result.args, result.lang, 1)
    ELSE IF IsSet(missingValue) THEN missingValue
    ELSE StrV(s2)

\* C28 as stated: translate("s1.s2", null, L) with s1 not a mapping of the
\* entry of L is a miss, whether the entry has a top-level key s2 or not.
C28_WholePathOrMiss ==
    (TwoSegmentCall
       /\ ~IsObject(Get(translationData[result.lang], Segments[1])))
        => result.value = Missed(Segments[2])

\* C28 amended: with s1 a mapping s2 is looked up in it, with s1 absent or
\* not a mapping s2 is looked up in the entry itself; if what is found is a
\* mapping, s2 is looked up once more inside it; the call returns the value
\* found, and is a miss when that value is absent, null or "".
C28_SkipsSegmentNotMapping ==
    TwoSegmentCall
        => LET entry == translationData[result.lang]
               s1 == Segments[1]
               s2 == Segments[2]
               found == IF IsObject(Get(entry, s1))
                        THEN Get(Get(entry, s1).m, s2)
                        ELSE Get(entry, s2)
               value == IF IsObject(found) THEN Get(found.m, s2) ELSE found
           IN  result.value = IF IsMissing(value) THEN Missed(s2) ELSE value

C28_Witness ==
    /\ TwoSegmentCall
    /\ result.key = <<"a", ".", "b">>
    /\ Get(translationData[result.lang], <<"a">>) = StrV(<<"x">>)
    /\ result.value = StrV(<<"h", "{", "{", "n", "}", "}">>)

(***************************************************************************)
(* Properties of repeated calls of sort.                                   *)
(***************************************************************************)
\* A call of sort on the list the previous step's call of sort returned,
\* with the same arguments.
SortsAgain ==
    /\ SortStep
    /\ lastOp.op = "sort"
    /\ listCall.returned = list
    /\ listCall'.keyNames = listCall.keyNames
    /\ listCall'.order = listCall.order
    /\ listCall'.extension = listCall.extension
    /\ listCall'.options = listCall.options

\* Whether two records of the list have equal collated values.
HasTies(items, keyName, locale, options) ==
    \E i, j \in DOMAIN items :
        /\ i # j
        /\ Collate(ValueOf(items[i], keyName), ValueOf(items[j], keyName),
                   locale, options) = 0

\* C29 as stated: sorting again the list sort has just returned, with the
\* same arguments, leaves the sequence as it is, for every order.
C29_SortIdempotent ==
    [][SortsAgain => list' = list]_vars

\* C29 amended: the same for an order other than "desc", and for "desc"
\* when no two records have equal collated values.
C29_SortIdempotentWithoutTies ==
    [][(SortsAgain
          /\ (listCall'.order = "desc"
                => ~HasTies(list, listCall'.keyNames[1],
                            addExtension(CurrentLanguage, listCall'.extension),
                            listCall'.options)))
         => list' = list]_vars

C29_Witness ==
    /\ lastOp.op = "sort"
    /\ listCall.supported /\ listCall.order = ""
    /\ listCall.options = "base"
    /\ "en" \in DOMAIN translationData
    /\ Len(list) = 3
    /\ list[1].p = StrV(<<"y">>) /\ list[2].p = StrV(<<"x">>)
    /\ list[3].p = StrV(<<"y">>)
    /\ list = sort(list, "p", "", listCall.extension, "base")

(***************************************************************************)
(* Properties of the ListComponent.                                        *)
(***************************************************************************)
\* The records without the columns of translated values that the
\* component's calls of search and sort leave on them.
Plain(items) ==
    Without(Without(Without(items, Translated("p")), Translated("q")),
            Translated(""))

\* C30: after every call of ListComponent.search(s), DATA holds the same
\* records as localization.search(s, loadData(), keyNames) returns.
C30_DataMatchesLastQuery ==
    [][lastOp'.op = "componentSearch"
         => SameRecords(Plain(list'),
                        Plain(search(listCall'.s, MockData, ComponentKeyNames,
                                     SearchOptions).returned))]_vars

====
